---- MODULE Spec2Model ----
(***************************************************************************)
(* Subscription store and news gateway of the football news app.           *)
(*                                                                         *)
(* One JSON file, subscriptions.json, is read and rewritten by three       *)
(* modules that each carry their own copy of getSubscriptions /            *)
(* saveSubscriptions:                                                      *)
(*   "part_000" : the server actions with four categories                  *)
(*   "actions"  : app/actions.ts, the server actions with three categories *)
(*   "route"    : app/api/subscriptions/route.ts, GET / POST / DELETE      *)
(***************************************************************************)
EXTENDS Naturals, Sequences, FiniteSets, TLC

\* ------------------------------------------------------------------ bounds
\* at most this many terms are stored in the whole file
MaxStored == 3
\* the same, in the runs where the file system may fail
MaxStoredIO == 2
\* longest collection of a record that was edited by hand
MaxEdited == 4
\* the same as MaxStored, in the runs with two server processes
MaxRace == 2
\* longest query and longest upstream reply of the gateway runs, in pieces
MaxQuery == 2
MaxReply == 2
\* longest upstream reply of the parsing runs, in pieces
MaxText == 6
\* last millisecond of the clock
MaxClock == 2
\* longest upstream reply and longest news list of the home page runs
MaxFeedReply == 1
MaxFeed == 2
\* most insertions recorded
MaxLog == 3
\* most fetchNews requests of the home page on their way at once
MaxFlying == 2
\* most terms the lists of the home page show, and most server actions of
\* the home page that have not settled
MaxShown == 3
MaxPending == 2
\* longest title of the detail page, in pieces
MaxTitle == 2

\* ------------------------------------------------------------------ inputs
Terms == {"a", "b"}
\* the empty string stands for an empty or missing field of the request
TermInputs == Terms \cup {""}
CategoryInputs ==
  {"league", "League", "TEAM", "Player", "tournament", "Tournament",
   "galaxy", ""}

Names == {"leagues", "teams", "players", "tournaments"}
ThreeNames == {"leagues", "teams", "players"}

ActionSites == {"part_000", "actions"}
Sites == ActionSites \cup {"route"}

\* outcome of one fs.writeFileSync: it returns, it throws before the file is
\* opened, or it throws after the file was opened with flag "w" (truncated)
WriteOutcomes == {"ok", "untouched", "truncated"}
AllIO == [create : WriteOutcomes, read : BOOLEAN, save : WriteOutcomes]
NoIO == [create |-> "ok", read |-> TRUE, save |-> "ok"]
\* at most one file system call of a request fails
IO ==
  {io \in AllIO : \/ io.create = "ok" /\ io.read
                  \/ io.create = "ok" /\ io.save = "ok"
                  \/ io.read /\ io.save = "ok"}

\* ------------------------------------------------------------- data model
NoCol == [n \in Names |-> << >>]

\* interface Subscriptions; keys are the properties the object carries
Subscriptions(keys, col) == [keys |-> keys, col |-> col]

\* the literal written on first read and returned on a failed read
DefaultSubs(site) ==
  IF site = "part_000" THEN Subscriptions(Names, NoCol)
  ELSE Subscriptions(ThreeNames, NoCol)

AbsentFile == [st |-> "absent", subs |-> Subscriptions({}, NoCol)]
CorruptFile == [st |-> "corrupt", subs |-> Subscriptions({}, NoCol)]
JsonFile(subs) == [st |-> "json", subs |-> subs]

\* String.prototype.toLowerCase on the category inputs and the query pieces
ToLowerCase(c) ==
  CASE c = "League" -> "league"
    [] c = "TEAM" -> "team"
    [] c = "Player" -> "player"
    [] c = "Tournament" -> "tournament"
    [] c = "Latest Football News" -> "latest football news"
    [] c = "upcoming important football matches in Europe" ->
         "upcoming important football matches in europe"
    [] OTHER -> c

\* variants with a slip, each refuted by the property named
\* (C1) only the first element is compared
IncludesFirst(s, t) == Len(s) > 0 /\ s[1] = t
\* (C3) only the last element is compared
IncludesLast(s, t) == Len(s) > 0 /\ s[Len(s)] = t
\* (C6) only the first match is removed
FilterFirst(s, t) ==
  IF \E i \in 1..Len(s) : s[i] = t
  THEN LET k == CHOOSE i \in 1..Len(s) :
                  s[i] = t /\ \A j \in 1..(i - 1) : s[j] # t
       IN SubSeq(s, 1, k - 1) \o SubSeq(s, k + 1, Len(s))
  ELSE s

\* (C20) the term is put in front
Unshift(s, t) == <<t>> \o s

\* Array.prototype.push
Push(s, t) == Append(s, t)

\* Array.prototype.includes and the filter (item) => item !== term
Includes(s, t) == \E i \in 1..Len(s) : s[i] = t
Filter(s, t) == SelectSeq(s, LAMBDA item : item # t)

\* (C10) the file is opened with flag "wx": an existing file is not replaced
WriteFileSyncExclusive(f, subs, w) ==
  CASE w = "ok" /\ f.st = "absent" -> JsonFile(subs)
    [] w = "truncated" -> CorruptFile
    [] OTHER -> f

\* fs.writeFileSync(subscriptionsFile, JSON.stringify(subs, null, 2))
WriteFileSync(f, subs, w) ==
  CASE w = "ok" -> JsonFile(subs)
    [] w = "truncated" -> CorruptFile
    [] OTHER -> f

\* (C24) the file is not read: the default literal is returned every time
GetSubscriptionsDefault(site, f, io) ==
  [subs |-> DefaultSubs(site), file |-> f, threw |-> FALSE]

\* getSubscriptions(): the object returned and the file left behind
GetSubscriptions(site, f, io) ==
  LET created == IF f.st = "absent"
                 THEN WriteFileSync(f, DefaultSubs(site), io.create)
                 ELSE f
      threw == \/ f.st = "absent" /\ io.create # "ok"
               \/ ~io.read
               \/ created.st # "json"
  IN [subs |-> IF threw THEN DefaultSubs(site) ELSE created.subs,
      file |-> created,
      threw |-> threw]

\* the switch on category.toLowerCase(): the property the case works on
SwitchPart000(lc) ==
  CASE lc = "league" -> "leagues"
    [] lc = "team" -> "teams"
    [] lc = "player" -> "players"
    [] lc = "tournament" -> "tournaments"
    [] OTHER -> "default"

SwitchThree(lc) ==
  CASE lc = "league" -> "leagues"
    [] lc = "team" -> "teams"
    [] lc = "player" -> "players"
    [] OTHER -> "default"

Switch(site, category) ==
  IF site = "part_000" THEN SwitchPart000(ToLowerCase(category))
  ELSE SwitchThree(ToLowerCase(category))

\* result of a handler: the file it leaves, what the caller gets, the error
\* raised inside the try block and whether saveSubscriptions wrote the file
Result(f, ok, status, error, raised, wrote, ret) ==
  [file |-> f, ok |-> ok, status |-> status, error |-> error,
   raised |-> raised, wrote |-> wrote, ret |-> ret]

\* subscribeAction / POST from the line after getSubscriptions() to the end of
\* the try block; got is what getSubscriptions returned and the file on disk
SubscribeSwitch(site, got, term, category, io) ==
  LET cur == got.subs
      b == Switch(site, category)
  IN IF b = "default"
     THEN Result(got.file, FALSE, 400, "Invalid category", "Invalid category",
                 FALSE, cur)
     ELSE IF b \notin cur.keys
     THEN Result(got.file, FALSE, 500, "Failed to subscribe", "TypeError",
                 FALSE, cur)
     ELSE IF Includes(cur.col[b], term)
     THEN Result(got.file, TRUE, 200, "", "", FALSE, cur)
     ELSE LET new == Subscriptions(cur.keys,
                       [cur.col EXCEPT ![b] = Push(@, term)])
          IN IF io.save = "ok"
             THEN Result(WriteFileSync(got.file, new, io.save), TRUE, 200, "",
                         "", TRUE, new)
             ELSE Result(WriteFileSync(got.file, new, io.save), FALSE, 500,
                         "Failed to subscribe", "Failed to save subscriptions",
                         FALSE, new)

\* unsubscribeAction / DELETE from the line after getSubscriptions()
UnsubscribeSwitch(site, got, term, category, io) ==
  LET cur == got.subs
      b == Switch(site, category)
  IN IF b = "default"
     THEN Result(got.file, FALSE, 400, "Invalid category", "Invalid category",
                 FALSE, cur)
     ELSE IF b \notin cur.keys
     THEN Result(got.file, FALSE, 500, "Failed to unsubscribe", "TypeError",
                 FALSE, cur)
     ELSE LET new == Subscriptions(cur.keys,
                       [cur.col EXCEPT ![b] = Filter(@, term)])
          IN IF io.save = "ok"
             THEN Result(WriteFileSync(got.file, new, io.save), TRUE, 200, "",
                         "", TRUE, new)
             ELSE Result(WriteFileSync(got.file, new, io.save), FALSE, 500,
                         "Failed to unsubscribe",
                         "Failed to save subscriptions", FALSE, new)

\* a server action rejects with the message of the Error its catch block throws
Rejected(r, message) ==
  IF r.ok THEN r ELSE [r EXCEPT !.status = 0, !.error = message]

subscribeAction(site, f, term, category, io) ==
  Rejected(SubscribeSwitch(site, GetSubscriptions(site, f, io), term, category,
                           io),
           "Failed to subscribe")

unsubscribeAction(site, f, term, category, io) ==
  Rejected(UnsubscribeSwitch(site, GetSubscriptions(site, f, io), term,
                             category, io),
           "Failed to unsubscribe")

\* the check of the request body at the top of POST and DELETE
InvalidBody(term, category) == term = "" \/ category = ""

POST(f, term, category, io) ==
  IF InvalidBody(term, category)
  THEN Result(f, FALSE, 400, "Invalid subscription data", "", FALSE,
              DefaultSubs("route"))
  ELSE SubscribeSwitch("route", GetSubscriptions("route", f, io), term,
                       category, io)

DELETE(f, term, category, io) ==
  IF InvalidBody(term, category)
  THEN Result(f, FALSE, 400, "Invalid unsubscribe data", "", FALSE,
              DefaultSubs("route"))
  ELSE UnsubscribeSwitch("route", GetSubscriptions("route", f, io), term,
                         category, io)

\* load(): getSubscriptions of a module (GET returns it with status 200)
Load(site, f, io) ==
  LET got == GetSubscriptions(site, f, io)
  IN Result(got.file, TRUE, 200, "", IF got.threw THEN "read" ELSE "", FALSE,
            got.subs)

Add(site, f, term, category, io) ==
  IF site = "route" THEN POST(f, term, category, io)
  ELSE subscribeAction(site, f, term, category, io)

Remove(site, f, term, category, io) ==
  IF site = "route" THEN DELETE(f, term, category, io)
  ELSE unsubscribeAction(site, f, term, category, io)

Handler(op, site, f, term, category, io) ==
  CASE op = "add" -> Add(site, f, term, category, io)
    [] op = "remove" -> Remove(site, f, term, category, io)
    [] OTHER -> Load(site, f, io)

\* ----------------------------------------------------------- news gateway
\* A string is a sequence of pieces: a piece is one separator character (a
\* blank, "|" or a line break) or a run of text that holds neither "|" nor a
\* line break and neither starts nor ends with white space.
Whitespace == {" ", "\n"}
ReplyChars == {"a", " ", "|", "\n", "2025-03-01"}
QueryChars ==
  {"latest football news", "Latest Football News",
   "upcoming important football matches in europe",
   "upcoming important football matches in Europe", "arsenal", " "}

StringsUpTo(chars, n) == UNION {[1..k -> chars] : k \in 0..n}

\* the reply of the parsing example of the specification
ExampleReply ==
  <<"Team A wins", " ", "|", " ", "2025-03-01", " ", "|", " ",
    "https://x.com/a", "\n", "Team B loses">>

\* the two queries the timeline page sends
TimelineNewsQuery == <<"latest football news">>
TimelineGamesQuery ==
  <<"list ", "upcoming important football matches in Europe",
    " for the next 7 days, one per line">>

\* values a JSON body can carry in a property; Undefined is a missing one
JsString(s) == [type |-> "string", truthy |-> Len(s) > 0, text |-> s]
Undefined == [type |-> "undefined", truthy |-> FALSE, text |-> << >>]
JsNull == [type |-> "object", truthy |-> FALSE, text |-> << >>]
JsZero == [type |-> "number", truthy |-> FALSE, text |-> << >>]
JsSeven == [type |-> "number", truthy |-> TRUE, text |-> << >>]
JsArray == [type |-> "object", truthy |-> TRUE, text |-> << >>]
NotStrings == {Undefined, JsNull, JsZero, JsSeven, JsArray}

\* the request body: what req.json() resolves to, or a body it rejects
Body(q, newsId, title) ==
  [kind |-> "object", q |-> q, newsId |-> newsId, title |-> title]
MalformedBody ==
  [kind |-> "malformed", q |-> Undefined, newsId |-> Undefined,
   title |-> Undefined]

\* what openai.chat.completions.create settles with: a completion, with or
\* without choices[0].message.content, or a thrown error, with or without a
\* response; status 0 and message "" stand for a property that is absent
Completion(content) ==
  [kind |-> "completion", hasContent |-> TRUE, content |-> content,
   response |-> FALSE, status |-> 0, message |-> ""]
NoChoice ==
  [kind |-> "completion", hasContent |-> FALSE, content |-> << >>,
   response |-> FALSE, status |-> 0, message |-> ""]
ErrorResponse(status, message) ==
  [kind |-> "error", hasContent |-> FALSE, content |-> << >>,
   response |-> TRUE, status |-> status, message |-> message]
NoResponse ==
  [kind |-> "error", hasContent |-> FALSE, content |-> << >>,
   response |-> FALSE, status |-> 0, message |-> ""]

UpstreamStatuses == {401, 403, 429, 404, 500, 0}
UpstreamMessages == {"", "model overloaded"}
UpstreamErrors ==
  {ErrorResponse(s, m) : s \in UpstreamStatuses, m \in UpstreamMessages}
    \cup {NoResponse}

\* (C17) the query is compared as it was typed
QueryVerbatim(q) == q

\* String.prototype.toLowerCase on a query
QueryToLowerCase(q) == [i \in 1..Len(q) |-> ToLowerCase(q[i])]

\* String.prototype.includes for one of the two phrases
StringIncludes(s, phrase) == \E i \in 1..Len(s) : s[i] = phrase

Prompt(kind, q) == [kind |-> kind, q |-> q]
NoPrompt == Prompt("none", << >>)

\* the if / else if / else that builds the prompt
SelectPrompt(q) ==
  IF StringIncludes(QueryToLowerCase(q), "latest football news")
  THEN Prompt("latest", << >>)
  ELSE IF StringIncludes(QueryToLowerCase(q),
                         "upcoming important football matches in europe")
  THEN Prompt("upcoming", << >>)
  ELSE Prompt("entity", q)

\* String.prototype.split(sep)
RECURSIVE Split(_, _)
Split(s, sep) ==
  IF \E i \in 1..Len(s) : s[i] = sep
  THEN LET k == CHOOSE i \in 1..Len(s) :
                  s[i] = sep /\ \A j \in 1..(i - 1) : s[j] # sep
       IN <<SubSeq(s, 1, k - 1)>> \o Split(SubSeq(s, k + 1, Len(s)), sep)
  ELSE <<s>>

RECURSIVE TrimStart(_)
TrimStart(s) ==
  IF Len(s) > 0 /\ s[1] \in Whitespace THEN TrimStart(Tail(s)) ELSE s

RECURSIVE TrimEnd(_)
TrimEnd(s) ==
  IF Len(s) > 0 /\ s[Len(s)] \in Whitespace
  THEN TrimEnd(SubSeq(s, 1, Len(s) - 1))
  ELSE s

\* (C12) white space is removed at the start only
TrimStartOnly(s) == TrimStart(s)

\* String.prototype.trim
Trim(s) == TrimEnd(TrimStart(s))

\* new Date().toISOString().split("T")[0] when Date.now() is t
IsoDate(t) == IF t = 0 THEN <<"2025-03-01">> ELSE <<"2025-03-02">>

PlaceholderUrl == <<"https://example.com/placeholder">>

\* `${index}-${Date.now()}` and `${Date.now()}`
ItemId(index, now) == <<index, now>>
PlaceholderId(now) == <<now>>

NewsItem(id, title, date, url) ==
  [id |-> id, title |-> title, date |-> date, url |-> url]

\* the callback of the second map: one trimmed line to one item
LineToItem(line, index, now) ==
  LET split == Split(line, "|")
      parts == [k \in 1..Len(split) |-> Trim(split[k])]
      date == IF Len(parts) >= 2 /\ parts[2] # << >> THEN parts[2]
              ELSE IsoDate(now)
      url == IF Len(parts) >= 3 /\ parts[3] # << >> THEN parts[3]
             ELSE PlaceholderUrl
  IN NewsItem(ItemId(index, now), parts[1], date, url)

\* newsContent.split("\n").map(trim).filter(non-empty).map(to item)
ParseNews(content, now) ==
  LET split == Split(content, "\n")
      trimmed == [k \in 1..Len(split) |-> Trim(split[k])]
      lines == SelectSeq(trimmed, LAMBDA line : Len(line) > 0)
  IN [k \in 1..Len(lines) |-> LineToItem(lines[k], k - 1, now)]

\* what a gateway route answers: NextResponse.json(body, { status }), the
\* prompt it built and the number of chat-completion requests it issued
Response(status, error, hasNews, news, summary, prompt, sent) ==
  [status |-> status, error |-> error, hasNews |-> hasNews, news |-> news,
   summary |-> summary, prompt |-> prompt, sent |-> sent]

\* (C15) the branch for status 403 is missing
CatchNewsWithout403(err, prompt, sent) ==
  IF err.response
  THEN CASE err.status = 401 ->
              Response(401, "Invalid or missing xAI API key", FALSE, << >>,
                       << >>, prompt, sent)
         [] err.status = 429 ->
              Response(429, "Rate limit exceeded for xAI API", FALSE, << >>,
                       << >>, prompt, sent)
         [] OTHER ->
              Response(IF err.status = 0 THEN 500 ELSE err.status,
                       IF err.message # "" THEN err.message
                       ELSE "Failed to fetch news from xAI",
                       FALSE, << >>, << >>, prompt, sent)
  ELSE Response(500, "Failed to fetch news from xAI", FALSE, << >>, << >>,
                prompt, sent)

\* the catch block of the news route
CatchNews(err, prompt, sent) ==
  IF err.response
  THEN CASE err.status = 401 ->
              Response(401, "Invalid or missing xAI API key", FALSE, << >>,
                       << >>, prompt, sent)
         [] err.status = 403 ->
              Response(403, "Access forbidden to xAI API", FALSE, << >>,
                       << >>, prompt, sent)
         [] err.status = 429 ->
              Response(429, "Rate limit exceeded for xAI API", FALSE, << >>,
                       << >>, prompt, sent)
         [] OTHER ->
              Response(IF err.status = 0 THEN 500 ELSE err.status,
                       IF err.message # "" THEN err.message
                       ELSE "Failed to fetch news from xAI",
                       FALSE, << >>, << >>, prompt, sent)
  ELSE Response(500, "Failed to fetch news from xAI", FALSE, << >>, << >>,
                prompt, sent)

\* (C14) only the type of q is looked at
InvalidQueryTypeOnly(q) == q.type # "string"

\* !q || typeof q !== "string"
InvalidQuery(q) == ~q.truthy \/ q.type # "string"

\* (C22) a failed chat-completion request is issued once more, and answered
NewsPOSTRetrying(body, up, now) ==
  IF body.kind = "malformed"
  THEN CatchNews(NoResponse, NoPrompt, 0)
  ELSE IF InvalidQuery(body.q)
  THEN Response(400, "Please provide a valid query", FALSE, << >>, << >>,
                NoPrompt, 0)
  ELSE LET prompt == SelectPrompt(body.q.text)
           sent == IF up.kind = "error" THEN 2 ELSE 1
           newsSummaries ==
             ParseNews(IF up.hasContent THEN up.content ELSE <<"a">>, now)
       IN IF Len(newsSummaries) = 0
          THEN CatchNews(NoResponse, prompt, sent)
          ELSE Response(200, "", TRUE, newsSummaries, << >>, prompt, sent)

\* POST of the news route; an Error thrown inside the try block carries no
\* response
NewsPOST(body, up, now) ==
  IF body.kind = "malformed"
  THEN CatchNews(NoResponse, NoPrompt, 0)
  ELSE IF InvalidQuery(body.q)
  THEN Response(400, "Please provide a valid query", FALSE, << >>, << >>,
                NoPrompt, 0)
  ELSE LET prompt == SelectPrompt(body.q.text)
       IN IF up.kind = "error"
          THEN CatchNews(up, prompt, 1)
          ELSE LET newsSummaries ==
                     ParseNews(IF up.hasContent THEN up.content ELSE << >>,
                               now)
               IN IF Len(newsSummaries) = 0
                  THEN CatchNews(NoResponse, prompt, 1)
                  ELSE Response(200, "", TRUE, newsSummaries, << >>, prompt,
                                1)

\* the check of newsId and title at the top of the summary route
InvalidSummaryBody(body) ==
  \/ ~body.newsId.truthy \/ body.newsId.type # "string"
  \/ ~body.title.truthy \/ body.title.type # "string"

\* the catch block of the summary route
CatchSummary(prompt, sent) ==
  Response(500, "Failed to fetch the summary", FALSE, << >>, << >>, prompt,
           sent)

\* POST of the summary route
SummaryPOST(body, up) ==
  IF body.kind = "malformed"
  THEN CatchSummary(NoPrompt, 0)
  ELSE IF InvalidSummaryBody(body)
  THEN Response(400, "Invalid news ID or title", FALSE, << >>, << >>,
                NoPrompt, 0)
  ELSE LET prompt == Prompt("summary", body.title.text)
           summary == IF up.hasContent THEN up.content ELSE << >>
       IN IF up.kind = "error" \/ summary = << >>
          THEN CatchSummary(prompt, 1)
          ELSE Response(200, "", FALSE, << >>, summary, prompt, 1)

\* ------------------------------------------------------------------ state
VARIABLES
  file,   \* subscriptions.json
  last,   \* the call that returned last and has not been consumed yet
  prev,   \* the call that returned right before last
  proc,   \* per server process: the request it is handling
  news,   \* the last exchange with a gateway route
  feed,   \* the news list of the home page
  clock,  \* Date.now()
  log,    \* the terms inserted so far, each with its collection
  home,   \* the home page: banner, lists, calls that have not settled
  timeline,  \* the timeline page
  detail  \* the news detail page

vars ==
  <<file, last, prev, proc, news, feed, clock, log, home, timeline, detail>>

store == <<file, last, prev, proc, log>>
pages == <<home, timeline, detail>>

\* server processes that share the working directory
Procs == {"p1", "p2"}

StoredCount(f) ==
  Len(f.subs.col["leagues"]) + Len(f.subs.col["teams"])
    + Len(f.subs.col["players"]) + Len(f.subs.col["tournaments"])

Call(op, site, term, category, r) ==
  [op |-> op, site |-> site, term |-> term, category |-> category,
   pre |-> file, ok |-> r.ok, status |-> r.status, error |-> r.error,
   raised |-> r.raised, wrote |-> r.wrote, ret |-> r.ret]

NoCall ==
  [op |-> "none", site |-> "route", term |-> "", category |-> "",
   pre |-> AbsentFile, ok |-> TRUE, status |-> 0, error |-> "", raised |-> "",
   wrote |-> FALSE, ret |-> DefaultSubs("route")]

Idle ==
  [pc |-> "idle", op |-> "none", site |-> "route", term |-> "",
   category |-> "", cur |-> DefaultSubs("route"), ok |-> TRUE,
   wrote |-> FALSE, n |-> 0]

\* no request has reached a gateway route yet
NoExchange ==
  [op |-> "none", body |-> MalformedBody, up |-> NoResponse, now |-> 0,
   res |-> Response(0, "", FALSE, << >>, << >>, NoPrompt, 0)]

Exchange(op, body, up, res) ==
  [op |-> op, body |-> body, up |-> up, now |-> clock, res |-> res]

\* the pages after their first render, before any effect has run; "" is the
\* banner when error is null
HomeMounted ==
  [error |-> "", lists |-> NoCol, loaded |-> FALSE, pending |-> << >>,
   flying |-> << >>, cleared |-> FALSE]

TimelineMounted ==
  [pc |-> "mounted", error |-> "", timelineNews |-> << >>,
   upcomingGames |-> << >>, issued |-> 0]

DetailMounted ==
  [pc |-> "mounted", id |-> Undefined, title |-> Undefined,
   loading |-> TRUE, error |-> "", summary |-> << >>]

Init ==
  /\ file = AbsentFile
  /\ last = NoCall
  /\ prev = NoCall
  /\ proc = [p \in Procs |-> Idle]
  /\ news = NoExchange
  /\ feed = << >>
  /\ clock = 0
  /\ log = << >>
  /\ home = HomeMounted
  /\ timeline = TimelineMounted
  /\ detail = DetailMounted

\* one request handled from start to end
Do(op, site, term, category, io, cap) ==
  LET r == Handler(op, site, file, term, category, io)
  IN /\ StoredCount(r.file) <= cap
     /\ file' = r.file
     /\ last' = Call(op, site, term, category, r)
     /\ prev' = last
     /\ UNCHANGED <<proc, news, feed, clock, log, pages>>

\* a request arrives when no result is outstanding
Request(faults, cap) ==
  /\ last.op = "none"
  /\ \E site \in Sites, io \in faults :
       \/ Do("load", site, "", "", io, cap)
       \/ \E term \in TermInputs, category \in CategoryInputs :
            Do("add", site, term, category, io, cap)
       \/ \E term \in TermInputs, category \in CategoryInputs :
            Do("remove", site, term, category, io, cap)

\* the caller issues the same call again right after the first one returned
Repeat(faults, cap) ==
  /\ last.op \in {"add", "remove"}
  /\ prev.op = "none"
  /\ \E io \in faults :
       Do(last.op, last.site, last.term, last.category, io, cap)

\* the caller reloads the subscriptions right after a call returned
Reload(faults, cap) ==
  /\ last.op \in {"add", "remove"}
  /\ prev.op = "none"
  /\ \E site \in Sites, io \in faults : Do("load", site, "", "", io, cap)

\* the caller has consumed the outstanding results
Return ==
  /\ last.op # "none"
  /\ last' = NoCall
  /\ prev' = NoCall
  /\ UNCHANGED <<file, proc, news, feed, clock, log, pages>>

\* the file system never fails
Next ==
  \/ Request({NoIO}, MaxStored)
  \/ Repeat({NoIO}, MaxStored)
  \/ Reload({NoIO}, MaxStored)
  \/ Return

Spec == Init /\ [][Next]_vars

\* any one writeFileSync or readFileSync of a request may throw
NextIO ==
  \/ Request(IO, MaxStoredIO)
  \/ Repeat(IO, MaxStoredIO)
  \/ Reload(IO, MaxStoredIO)
  \/ Return

SpecIO == Init /\ [][NextIO]_vars

\* the server starts on a record in which one collection was written by hand:
\* any sequence of terms, repeated terms included
SeqsUpTo(n) == UNION {[1..k -> TermInputs] : k \in 0..n}

EditedFiles ==
  {JsonFile(Subscriptions(Names, [NoCol EXCEPT ![n] = s])) :
     n \in Names, s \in SeqsUpTo(MaxEdited)}

InitEdited ==
  /\ file \in EditedFiles \cup {AbsentFile}
  /\ last = NoCall
  /\ prev = NoCall
  /\ proc = [p \in Procs |-> Idle]
  /\ news = NoExchange
  /\ feed = << >>
  /\ clock = 0
  /\ log = << >>
  /\ home = HomeMounted
  /\ timeline = TimelineMounted
  /\ detail = DetailMounted

NextEdited ==
  \/ Request({NoIO}, MaxStored)
  \/ Repeat({NoIO}, MaxStored)
  \/ Reload({NoIO}, MaxStored)
  \/ Return

SpecEdited == InitEdited /\ [][NextEdited]_vars

\* ------------------------------------------------- two server processes
\* Inside one Node process a handler runs from getSubscriptions() to
\* saveSubscriptions() without an await in between.  Two processes serving
\* requests over the same subscriptions.json take their file system calls in
\* any order: the file is neither locked nor compared before it is replaced.
RaceCategories == {"league", "TEAM"}
RaceSites == {"part_000", "route"}

Done(p) == Cardinality({q \in Procs : proc[q].pc = "done"})

\* process p takes a request and runs getSubscriptions()
Read(p) ==
  /\ proc[p].pc = "idle"
  /\ \E op \in {"add", "remove"}, site \in RaceSites, term \in Terms,
        category \in RaceCategories :
       LET got == GetSubscriptions(site, file, NoIO)
       IN /\ file' = got.file
          /\ proc' = [proc EXCEPT ![p] =
               [pc |-> "read", op |-> op, site |-> site, term |-> term,
                category |-> category, cur |-> got.subs, ok |-> TRUE,
                wrote |-> FALSE, n |-> 0]]
  /\ UNCHANGED <<last, prev, news, feed, clock, log, pages>>

\* process p runs the switch and saveSubscriptions() on what it read
Write(p) ==
  /\ proc[p].pc = "read"
  /\ LET got == [subs |-> proc[p].cur, file |-> file, threw |-> FALSE]
         r == IF proc[p].op = "add"
              THEN SubscribeSwitch(proc[p].site, got, proc[p].term,
                                   proc[p].category, NoIO)
              ELSE UnsubscribeSwitch(proc[p].site, got, proc[p].term,
                                     proc[p].category, NoIO)
     IN /\ StoredCount(r.file) <= MaxRace
        /\ file' = r.file
        /\ proc' = [proc EXCEPT ![p] =
             [@ EXCEPT !.pc = "done", !.ok = r.ok, !.wrote = r.wrote,
                       !.n = Done(p) + 1]]
  /\ UNCHANGED <<last, prev, news, feed, clock, log, pages>>

\* the response of process p is delivered
Finish(p) ==
  /\ proc[p].pc = "done"
  /\ proc' = [proc EXCEPT ![p] = Idle]
  /\ UNCHANGED <<file, last, prev, news, feed, clock, log, pages>>

NextRace == \E p \in Procs : Read(p) \/ Write(p) \/ Finish(p)

SpecRace == Init /\ [][NextRace]_vars

\* ------------------------------------------------ insertions, in order
OrderCategories == {"league", "Player", "tournament"}

\* one request handled from start to end; an add that saved is an insertion
DoLogged(op, site, term, category) ==
  LET r == Handler(op, site, file, term, category, NoIO)
  IN /\ StoredCount(r.file) <= MaxStored
     /\ file' = r.file
     /\ last' = Call(op, site, term, category, r)
     /\ prev' = NoCall
     /\ log' = IF op = "add" /\ r.wrote
               THEN Append(log, <<Switch(site, category), term>>)
               ELSE log
     /\ Len(log') <= MaxLog
     /\ UNCHANGED <<proc, news, feed, clock, pages>>

RequestLogged ==
  /\ last.op = "none"
  /\ \E op \in {"add", "remove"}, site \in Sites, term \in Terms,
        category \in OrderCategories :
       DoLogged(op, site, term, category)

NextOrder == RequestLogged \/ Return

SpecOrder == Init /\ [][NextOrder]_vars

\* ------------------------------------------------- requests to the gateway
Queries ==
  StringsUpTo(QueryChars, MaxQuery)
    \cup {TimelineNewsQuery, TimelineGamesQuery}

NewsBodies ==
  {Body(q, Undefined, Undefined) :
     q \in NotStrings \cup {JsString(s) : s \in Queries}}
    \cup {MalformedBody}

Upstreams(n) ==
  {Completion(t) : t \in StringsUpTo(ReplyChars, n)}
    \cup {NoChoice} \cup UpstreamErrors

\* the news route handles one request from start to end; a request arrives
\* when no response is outstanding
NewsRequest(bodies, ups) ==
  /\ news.op = "none"
  /\ \E body \in bodies, up \in ups :
       news' = Exchange("fetchNews", body, up, NewsPOST(body, up, clock))
  /\ UNCHANGED <<file, last, prev, proc, feed, clock, log, pages>>

\* the caller has consumed the response
Respond ==
  /\ news.op # "none"
  /\ news' = NoExchange
  /\ UNCHANGED <<file, last, prev, proc, feed, clock, log, pages>>

\* a millisecond passes
Tick ==
  /\ clock < MaxClock
  /\ clock' = clock + 1
  /\ UNCHANGED <<file, last, prev, proc, news, feed, log, pages>>

NextNews == NewsRequest(NewsBodies, Upstreams(MaxReply)) \/ Respond \/ Tick

SpecNews == Init /\ [][NextNews]_vars

\* the reply is any text up to MaxText pieces or the example, the query is a
\* plain name
NextParse ==
  \/ NewsRequest({Body(JsString(<<"arsenal">>), Undefined, Undefined)},
                 {Completion(t) :
                    t \in StringsUpTo(ReplyChars, MaxText)
                            \cup {ExampleReply}})
  \/ Respond
  \/ Tick

SpecParse == Init /\ [][NextParse]_vars

SummaryBodies ==
  {Body(Undefined, newsId, title) :
     newsId \in NotStrings \cup {JsString(<< >>), JsString(<<"0-1">>)},
     title \in NotStrings
                \cup {JsString(s) : s \in StringsUpTo({"a", " "}, 1)}}
    \cup {MalformedBody}

\* the summary route handles one request from start to end
SummaryRequest ==
  /\ news.op = "none"
  /\ \E body \in SummaryBodies, up \in Upstreams(MaxReply) :
       news' = Exchange("summarize", body, up, SummaryPOST(body, up))
  /\ UNCHANGED <<file, last, prev, proc, feed, clock, log, pages>>

NextSummary == SummaryRequest \/ Respond \/ Tick

SpecSummary == Init /\ [][NextSummary]_vars

\* both gateway routes
NextGateway ==
  \/ NewsRequest(NewsBodies, Upstreams(MaxReply))
  \/ SummaryRequest
  \/ Respond
  \/ Tick

SpecGateway == Init /\ [][NextGateway]_vars

\* ------------------------------------------------ news list of the home page
FeedQueries == {<<"arsenal">>, <<"latest football news">>}
FeedUpstreams ==
  {Completion(t) : t \in StringsUpTo({"a", "\n"}, MaxFeedReply)}
    \cup {NoResponse, ErrorResponse(429, "")}

\* the item the home page shows for a failed request
PlaceholderItem(now) ==
  NewsItem(PlaceholderId(now), <<"Couldn't fetch news.">>, IsoDate(now),
           PlaceholderUrl)

\* axios.post got no HTTP response at all
NoHttpResponse == Response(0, "", FALSE, << >>, << >>, NoPrompt, 0)

\* axios.post resolves on a 2xx status and rejects otherwise
Resolved(res) == res.status >= 200 /\ res.status < 300

\* (C23) the list is replaced, as the timeline lists are
SettleFeedReplacing(prevNews, res, now) ==
  IF Resolved(res) /\ res.hasNews
  THEN res.news
  ELSE <<PlaceholderItem(now)>>

\* the setNews calls of fetchNews
SettleFeed(prevNews, res, now) ==
  IF Resolved(res) /\ res.hasNews
  THEN prevNews \o res.news
  ELSE Append(prevNews, PlaceholderItem(now))

\* the setError calls of fetchNews after the request has settled
SettleBanner(error, res) ==
  IF Resolved(res) /\ res.hasNews THEN error
  ELSE IF res.error # "" THEN res.error
  ELSE "Failed to fetch news."

\* fetchNews up to its await: setError(null) and the request is on its way
StartFetch(h, q) ==
  [h EXCEPT !.error = "", !.flying = Append(@, q), !.cleared = FALSE]

RemoveAt(s, i) == SubSeq(s, 1, i - 1) \o SubSeq(s, i + 1, Len(s))

\* handleSearch or a click on a subscription: fetchNews(query) starts
HomeFetchNews ==
  /\ Len(home.flying) < MaxFlying
  /\ \E q \in FeedQueries : home' = StartFetch(home, q)
  /\ UNCHANGED <<store, news, feed, clock, timeline, detail>>

\* the answer res to the i-th request on its way reaches fetchNews
FetchSettles(i, up, res) ==
  /\ news' = Exchange("fetchNews",
                      Body(JsString(home.flying[i]), Undefined, Undefined),
                      up, res)
  /\ feed' = SettleFeed(feed, res, clock)
  /\ home' = [home EXCEPT !.flying = RemoveAt(@, i),
                          !.error = SettleBanner(@, res)]

\* one of the requests on their way settles, in any order: the news route
\* handles it and its answer arrives, or no answer arrives
HomeFetchSettles(ups) ==
  /\ \E i \in 1..Len(home.flying) :
       \/ \E up \in ups :
            FetchSettles(i, up,
              NewsPOST(Body(JsString(home.flying[i]), Undefined, Undefined),
                       up, clock))
       \/ FetchSettles(i, NoResponse, NoHttpResponse)
  /\ Len(feed') <= MaxFeed
  /\ UNCHANGED <<store, clock, timeline, detail>>

ClearNewsFeed ==
  /\ feed' = << >>
  /\ home' = [home EXCEPT !.cleared = TRUE]
  /\ UNCHANGED <<store, news, clock, timeline, detail>>

NextFeed ==
  \/ HomeFetchNews
  \/ HomeFetchSettles(FeedUpstreams)
  \/ ClearNewsFeed
  \/ Tick

SpecFeed == Init /\ [][NextFeed]_vars


\* ------------------------------------------- subscriptions on the home page
\* finalCategory: the option chosen or the custom text, in lower case
HomeCategories == {"league", "tournament", "galaxy"}
HomeTerms == {"a"}
HomeUpstreams == {Completion(<<"a">>)}
\* the file system works, or the write of saveSubscriptions throws
HomeIO == {NoIO, [NoIO EXCEPT !.save = "untouched"]}

\* the switch of the optimistic update in handleSubscribe
ShownUnder(finalCategory) ==
  CASE finalCategory = "league" -> "leagues"
    [] finalCategory = "team" -> "teams"
    [] finalCategory = "player" -> "players"
    [] finalCategory = "tournament" -> "tournaments"
    [] OTHER -> "players"

\* the category the unsubscribe button of a list passes
ButtonCategory(n) ==
  CASE n = "leagues" -> "league"
    [] n = "teams" -> "team"
    [] n = "players" -> "player"
    [] OTHER -> "tournament"

ShownCount(h) ==
  Len(h.lists["leagues"]) + Len(h.lists["teams"])
    + Len(h.lists["players"]) + Len(h.lists["tournaments"])

ServerAction(op, term, category) ==
  [op |-> op, term |-> term, category |-> category]

\* loadSubscriptions: the answer of GET /api/subscriptions reaches the page
HomeLoad ==
  /\ ~home.loaded
  /\ LET r == Load("route", file, NoIO)
     IN /\ file' = r.file
        /\ home' = [home EXCEPT
             !.loaded = TRUE,
             !.lists = [n \in Names |->
                          IF n \in r.ret.keys THEN r.ret.col[n] ELSE << >>]]
  /\ UNCHANGED <<last, prev, proc, log, news, feed, clock, timeline, detail>>

\* handleSubscribe with a valid name, confirmed: the server action is called,
\* the term is shown at once and fetchNews(term) starts
HandleSubscribe ==
  /\ ShownCount(home) < MaxShown
  /\ Len(home.pending) < MaxPending
  /\ Len(home.flying) < MaxFlying
  /\ \E term \in HomeTerms, finalCategory \in HomeCategories :
       home' = StartFetch(
         [home EXCEPT
            !.pending = Append(@, ServerAction("add", term, finalCategory)),
            !.lists[ShownUnder(finalCategory)] = Append(@, term)],
         <<term>>)
  /\ UNCHANGED <<store, news, feed, clock, timeline, detail>>

\* handleUnsubscribe from the button of a term that is shown
HandleUnsubscribe ==
  /\ Len(home.pending) < MaxPending
  /\ \E n \in Names : \E i \in 1..Len(home.lists[n]) :
       LET term == home.lists[n][i]
       IN home' = [home EXCEPT
            !.pending =
               Append(@, ServerAction("remove", term, ButtonCategory(n))),
            !.lists[n] = Filter(@, term)]
  /\ UNCHANGED <<store, news, feed, clock, timeline, detail>>

\* the oldest server action that has not settled runs on the server and its
\* promise settles; a rejection reaches the catch callback
ActionSettles ==
  /\ Len(home.pending) > 0
  /\ \E site \in ActionSites, io \in HomeIO :
       LET a == Head(home.pending)
           r == Handler(a.op, site, file, a.term, a.category, io)
       IN /\ StoredCount(r.file) <= MaxStored
          /\ file' = r.file
          /\ home' = [home EXCEPT
               !.pending = Tail(@),
               !.error = IF r.ok THEN @ ELSE r.error]
  /\ UNCHANGED <<last, prev, proc, log, news, feed, clock, timeline, detail>>

\* the page is opened anew once nothing is on its way
HomeReload ==
  /\ home.loaded
  /\ home.pending = << >>
  /\ home.flying = << >>
  /\ home' = HomeMounted
  /\ feed' = << >>
  /\ UNCHANGED <<store, news, clock, timeline, detail>>

NextHome ==
  \/ HomeLoad
  \/ HandleSubscribe
  \/ HandleUnsubscribe
  \/ ActionSettles
  \/ HomeFetchSettles(HomeUpstreams)
  \/ HomeReload

SpecHome == Init /\ [][NextHome]_vars

\* ------------------------------------------------------------ timeline page
TimelineUpstreams ==
  {Completion(t) : t \in StringsUpTo({"a", "\n"}, MaxFeedReply)}
    \cup {NoResponse, ErrorResponse(429, "")}

NewsPlaceholder(now) ==
  NewsItem(PlaceholderId(now), <<"Couldn't fetch timeline news.">>,
           IsoDate(now), PlaceholderUrl)

GamesPlaceholder(now) ==
  NewsItem(PlaceholderId(now), <<"Couldn't fetch upcoming games.">>,
           IsoDate(now), PlaceholderUrl)

\* the catch block of fetchTimelineData
CatchTimeline(t, now) ==
  [t EXCEPT !.pc = "done",
            !.error = "Failed to fetch timeline data.",
            !.timelineNews = <<NewsPlaceholder(now)>>,
            !.upcomingGames = <<GamesPlaceholder(now)>>]

\* the effect after the first render, or resetTimeline: the lists are
\* emptied and fetchTimelineData runs up to its first await
TimelineStart ==
  /\ timeline.pc \in {"mounted", "done"}
  /\ timeline' = [pc |-> "news", error |-> "", timelineNews |-> << >>,
                  upcomingGames |-> << >>, issued |-> 1]
  /\ UNCHANGED <<store, news, feed, clock, home, detail>>

\* the first request settles; when it resolved the second one is sent
TimelineNewsSettled(up, res) ==
  /\ news' = Exchange("fetchNews",
                      Body(JsString(TimelineNewsQuery), Undefined, Undefined),
                      up, res)
  /\ timeline' =
       IF Resolved(res)
       THEN [timeline EXCEPT
               !.pc = "games",
               !.issued = 2,
               !.timelineNews = IF res.hasNews THEN res.news ELSE @]
       ELSE CatchTimeline(timeline, clock)

TimelineNewsSettles ==
  /\ timeline.pc = "news"
  /\ \/ \E up \in TimelineUpstreams :
          TimelineNewsSettled(up,
            NewsPOST(Body(JsString(TimelineNewsQuery), Undefined, Undefined),
                     up, clock))
     \/ TimelineNewsSettled(NoResponse, NoHttpResponse)
  /\ UNCHANGED <<store, feed, clock, home, detail>>

\* the second request settles
TimelineGamesSettled(up, res) ==
  /\ news' = Exchange("fetchNews",
                      Body(JsString(TimelineGamesQuery), Undefined, Undefined),
                      up, res)
  /\ timeline' =
       IF Resolved(res)
       THEN [timeline EXCEPT
               !.pc = "done",
               !.upcomingGames = IF res.hasNews THEN res.news ELSE @]
       ELSE CatchTimeline(timeline, clock)

TimelineGamesSettles ==
  /\ timeline.pc = "games"
  /\ \/ \E up \in TimelineUpstreams :
          TimelineGamesSettled(up,
            NewsPOST(Body(JsString(TimelineGamesQuery), Undefined, Undefined),
                     up, clock))
     \/ TimelineGamesSettled(NoResponse, NoHttpResponse)
  /\ UNCHANGED <<store, feed, clock, home, detail>>

NextTimeline ==
  \/ TimelineStart
  \/ TimelineNewsSettles
  \/ TimelineGamesSettles
  \/ Tick

SpecTimeline == Init /\ [][NextTimeline]_vars

\* --------------------------------------------------------- news detail page
\* useParams().id and searchParams.get("title")
DetailIds == {Undefined, JsString(<<"0-1">>), JsString(<<"1-1">>)}
DetailTitles ==
  {JsNull} \cup {JsString(t) : t \in StringsUpTo({"a", " "}, MaxTitle)}

\* (C30) without the finally block: loading is left only when the request
\* resolved
SettleDetailNoFinally(d, res) ==
  IF Resolved(res)
  THEN [d EXCEPT !.pc = "done",
                 !.loading = FALSE,
                 !.summary = IF res.summary # << >> THEN res.summary ELSE @,
                 !.error = IF res.summary = << >> /\ res.error # ""
                           THEN res.error ELSE @]
  ELSE [d EXCEPT !.pc = "done", !.error = "Failed to fetch the summary."]

\* fetchSummary from the answer on: try, catch and finally
SettleDetail(d, res) ==
  IF Resolved(res)
  THEN [d EXCEPT !.pc = "done",
                 !.loading = FALSE,
                 !.summary = IF res.summary # << >> THEN res.summary ELSE @,
                 !.error = IF res.summary = << >> /\ res.error # ""
                           THEN res.error ELSE @]
  ELSE [d EXCEPT !.pc = "done",
                 !.loading = FALSE,
                 !.error = "Failed to fetch the summary."]

\* the effect after the first render: fetchSummary starts when id and title
\* are there
DetailEffect ==
  /\ detail.pc = "mounted"
  /\ \E id \in DetailIds, title \in DetailTitles :
       detail' =
         IF id.truthy /\ title.truthy
         THEN [detail EXCEPT !.pc = "fetching", !.id = id, !.title = title,
                             !.loading = TRUE, !.error = ""]
         ELSE [detail EXCEPT !.pc = "done", !.id = id, !.title = title,
                             !.loading = FALSE,
                             !.error = "Missing news ID or title."]
  /\ UNCHANGED <<store, news, feed, clock, home, timeline>>

DetailSettled(up, res) ==
  /\ news' = Exchange("summarize", Body(Undefined, detail.id, detail.title),
                      up, res)
  /\ detail' = SettleDetail(detail, res)

\* the summary request settles: the route answers, or no answer arrives
DetailSettles ==
  /\ detail.pc = "fetching"
  /\ \/ \E up \in Upstreams(MaxReply) :
          DetailSettled(up,
            SummaryPOST(Body(Undefined, detail.id, detail.title), up))
     \/ DetailSettled(NoResponse, NoHttpResponse)
  /\ UNCHANGED <<store, feed, clock, home, timeline>>

NextDetail == DetailEffect \/ DetailSettles

\* the effect runs after the render and the request promise settles
SpecDetail ==
  /\ Init
  /\ [][NextDetail]_vars
  /\ WF_vars(DetailEffect)
  /\ WF_vars(DetailSettles)

\* ----------------------------------------------------------------- claims
\* the collection a category names, by the contract: the four canonical
\* names in any casing
Recognised(category) ==
  CASE category \in {"league", "League", "LEAGUE"} -> "leagues"
    [] category \in {"team", "Team", "TEAM"} -> "teams"
    [] category \in {"player", "Player", "PLAYER"} -> "players"
    [] category \in {"tournament", "Tournament", "TOURNAMENT"} -> "tournaments"
    [] OTHER -> "none"

FourEmpty == Subscriptions(Names, NoCol)

Occurrences(s, t) == Cardinality({i \in 1..Len(s) : s[i] = t})

\* C1: add is idempotent: when add(t, c) succeeded and the same call is made
\* again right away, the file after the second call is the file after the
\* first one and the second call wrote nothing.
C1_AddIdempotent ==
  (last.op = "add" /\ prev.op = "add" /\ prev.ok)
    => (file = last.pre /\ ~last.wrote /\ last.ok)

C1_Witness ==
  /\ last.op = "add" /\ prev.op = "add"
  /\ prev.ok /\ prev.wrote
  /\ Recognised(last.category) = "teams"
  /\ Len(file.subs.col["teams"]) = 2

\* C2: round trip: a load right after a successful add(t, c) returns t in the
\* collection of c and the other three collections as they were before the
\* add; a load on a fresh store returns four empty collections.
C2_RoundTrip ==
  /\ (last.op = "load" /\ prev.op = "add" /\ prev.ok)
       => /\ Includes(last.ret.col[Recognised(prev.category)], prev.term)
          /\ \A n \in Names \ {Recognised(prev.category)} :
               last.ret.col[n] = prev.pre.subs.col[n]
  /\ (last.op = "load" /\ last.pre = AbsentFile) => last.ret = FourEmpty

\* the round trip alone, with a collection the returned object lacks read as
\* an empty one
C2_RoundTripTerms ==
  (last.op = "load" /\ prev.op = "add" /\ prev.ok)
    => /\ Includes(last.ret.col[Recognised(prev.category)], prev.term)
       /\ \A n \in Names \ {Recognised(prev.category)} :
            last.ret.col[n] = prev.pre.subs.col[n]

\* C3: no collection of the persisted record holds the same string twice.
C3_NoDuplicates ==
  \A n \in Names : \A i, j \in 1..Len(file.subs.col[n]) :
    i # j => file.subs.col[n][i] # file.subs.col[n][j]

C3_Witness ==
  /\ last.op = "add" /\ prev.op = "add" /\ prev.ok
  /\ Len(file.subs.col["leagues"]) = 2
  /\ file.subs.col["leagues"][2] = last.term

\* C4: at every call site, add with any casing of league, team, player or
\* tournament succeeds and the term ends the call in the collection named.
C4_AddResolvesFourCategories ==
  (last.op = "add" /\ last.term # "" /\ Recognised(last.category) # "none")
    => /\ last.ok
       /\ Includes(file.subs.col[Recognised(last.category)], last.term)

\* C5: add or remove with a category outside the four canonical names fails
\* with the invalid-category error and leaves the persisted set as it was.
C5_InvalidCategoryRejected ==
  (/\ last.op \in {"add", "remove"}
   /\ last.term # "" /\ last.category # ""
   /\ Recognised(last.category) = "none")
    => /\ ~last.ok
       /\ last.error = "Invalid category"
       /\ file.subs.col = last.pre.subs.col

\* C6: after a successful remove(t, c) the collection of c holds no t, and it
\* holds the other elements it held before, as often and in the same order.
C6_RemoveFilters ==
  (last.op = "remove" /\ last.ok)
    => LET old == last.pre.subs.col[Recognised(last.category)]
           new == file.subs.col[Recognised(last.category)]
       IN /\ Occurrences(new, last.term) = 0
          /\ \A x \in TermInputs \ {last.term} :
               Occurrences(new, x) = Occurrences(old, x)
          /\ \A i, j \in 1..Len(new) :
               i < j => \E k, l \in 1..Len(old) :
                          k < l /\ old[k] = new[i] /\ old[l] = new[j]

\* the term removed stood twice among four elements, the two others stay
C6_Witness ==
  /\ last.op = "remove" /\ last.ok
  /\ Len(last.pre.subs.col["players"]) = 4
  /\ Occurrences(last.pre.subs.col["players"], last.term) = 2
  /\ last.pre.subs.col["players"][1] = last.term
  /\ last.pre.subs.col["players"][2] # last.pre.subs.col["players"][4]
  /\ Len(file.subs.col["players"]) = 2

\* C7: a load on a fresh store creates a record with the four collections
\* empty and returns it, and the persisted record always carries all four
\* collections.
C7_FourCollectionsPersisted ==
  /\ file.st = "json" => file.subs.keys = Names
  /\ (last.op = "load" /\ last.pre = AbsentFile)
       => (last.ret = FourEmpty /\ file = JsonFile(FourEmpty))

\* C8: load never raises; when reading or parsing the record fails it returns
\* four empty collections.
C8_LoadFallsBackToFourEmpty ==
  (last.op = "load" /\ last.raised = "read")
    => (last.ok /\ last.ret = FourEmpty)

\* what the caller of a site gets for an unknown category
InvalidCategoryOutcome(site) ==
  LET r == Add(site, AbsentFile, "a", "galaxy", NoIO)
  IN <<r.status, r.error>>

\* C9: when the write of add fails, the call fails with an error the caller
\* can tell apart from the invalid-category one, and the persisted set is the
\* one from before the call.
C9_FailedWriteIsDistinctAndHarmless ==
  (last.op = "add" /\ last.raised = "Failed to save subscriptions")
    => /\ ~last.ok
       /\ <<last.status, last.error>> # InvalidCategoryOutcome(last.site)
       /\ file.subs.col = last.pre.subs.col

\* what a request stores when it saves: the set it read, with its own change
OwnChange(q) ==
  Subscriptions(q.cur.keys,
    [q.cur.col EXCEPT ![Recognised(q.category)] =
       IF q.op = "add" THEN Append(@, q.term)
       ELSE SelectSeq(@, LAMBDA x : x # q.term)])

Positions(s, sep) == {i \in 1..Len(s) : s[i] = sep}

NthPosition(P, k) == CHOOSE i \in P : Cardinality({j \in P : j < i}) = k - 1

Segments(s, sep) == Cardinality(Positions(s, sep)) + 1

Segment(s, sep, k) ==
  LET P == Positions(s, sep)
      lo == IF k = 1 THEN 0 ELSE NthPosition(P, k - 1)
      hi == IF k = Segments(s, sep) THEN Len(s) + 1 ELSE NthPosition(P, k)
  IN SubSeq(s, lo + 1, hi - 1)

\* a string without the white space around it
Core(s) ==
  LET T == {i \in 1..Len(s) : s[i] \notin Whitespace}
  IN IF T = {} THEN << >>
     ELSE SubSeq(s, CHOOSE i \in T : \A j \in T : i <= j,
                 CHOOSE i \in T : \A j \in T : j <= i)

\* the k-th field of a line, trimmed; empty when the line has no such field
Field(line, k) ==
  IF k <= Segments(line, "|") THEN Core(Segment(line, "|", k)) ELSE << >>

\* the lines of a reply that are not empty after trimming, in their order
NonEmptyLines(text) ==
  LET K == {k \in 1..Segments(text, "\n") : Core(Segment(text, "\n", k)) # << >>}
  IN [j \in 1..Cardinality(K) |-> Segment(text, "\n", NthPosition(K, j))]

\* the text the news route parses
ReplyText(up) == IF up.hasContent THEN up.content ELSE << >>

\* the news route called the upstream and got a completion
Completed ==
  news.op = "fetchNews" /\ news.res.sent = 1 /\ news.up.kind = "completion"

Outcome(res) == <<res.status, res.error>>

\* what the caller of the news route gets when the upstream sends no response
TransportOutcome ==
  Outcome(NewsPOST(Body(JsString(<<"arsenal">>), Undefined, Undefined),
                   NoResponse, 0))

\* C11: when the reply has no line that is non-empty after trimming, fetchNews
\* fails, never with status 200 and a list, and what the caller gets differs
\* from what it gets when the upstream did not respond.
C11_NoResultsIsDistinct ==
  (Completed /\ NonEmptyLines(ReplyText(news.up)) = << >>)
    => /\ news.res.status # 200
       /\ ~news.res.hasNews
       /\ Outcome(news.res) # TransportOutcome

\* the part of C11 on the empty list alone
C11_NeverAnEmptySuccess ==
  (news.op = "fetchNews" /\ news.res.status = 200)
    => (news.res.hasNews /\ Len(news.res.news) > 0)

\* C12: fetchNews returns one item per line of the reply that is non-empty
\* after trimming, in the order of the lines; title, date and url are the
\* trimmed first, second and third "|"-separated fields of the line; a missing
\* or empty date is the current date, a missing or empty url the placeholder;
\* the fields after the third do not show in the item.
C12_ParsedLineByLine ==
  (Completed /\ NonEmptyLines(ReplyText(news.up)) # << >>)
    => LET lines == NonEmptyLines(ReplyText(news.up))
           items == news.res.news
       IN /\ news.res.status = 200
          /\ Len(items) = Len(lines)
          /\ \A j \in 1..Len(lines) :
               /\ items[j].title = Field(lines[j], 1)
               /\ items[j].date = IF Field(lines[j], 2) # << >>
                                  THEN Field(lines[j], 2)
                                  ELSE IsoDate(news.now)
               /\ items[j].url = IF Field(lines[j], 3) # << >>
                                 THEN Field(lines[j], 3)
                                 ELSE PlaceholderUrl

\* the example: two items, the second with today's date and the placeholder
C12_Witness ==
  /\ Completed
  /\ news.up.content = ExampleReply
  /\ news.now = 1
  /\ Len(news.res.news) = 2
  /\ news.res.news[1].title = <<"Team A wins">>
  /\ news.res.news[1].date = <<"2025-03-01">>
  /\ news.res.news[1].url = <<"https://x.com/a">>
  /\ news.res.news[2].title = <<"Team B loses">>
  /\ news.res.news[2].date = <<"2025-03-02">>
  /\ news.res.news[2].url = PlaceholderUrl

IsoDates == {<<"2025-03-01">>, <<"2025-03-02">>}

\* C13: every item fetchNews returns has a date of the form YYYY-MM-DD,
\* whatever the reply text.
C13_DatesAreIso ==
  (news.op = "fetchNews" /\ news.res.hasNews)
    => \A j \in 1..Len(news.res.news) : news.res.news[j].date \in IsoDates

\* C14: when the query is missing, empty or not a string, fetchNews answers
\* 400 with the invalid-query error and issues no chat-completion request.
C14_InvalidQueryRejected ==
  (/\ news.op = "fetchNews"
   /\ news.body.kind = "object"
   /\ \/ news.body.q = Undefined
      \/ news.body.q = JsString(<< >>)
      \/ news.body.q.type # "string")
    => /\ news.res.status = 400
       /\ news.res.error = "Please provide a valid query"
       /\ news.res.sent = 0

\* the query is the empty string, the upstream would have answered
C14_Witness ==
  /\ news.op = "fetchNews"
  /\ news.body.q = JsString(<< >>)
  /\ news.up = Completion(<<"a">>)
  /\ news.res.status = 400
  /\ news.res.sent = 0

\* C15: an upstream failure of fetchNews is answered by status: 401 as the
\* auth error, 403 as the forbidden error, 429 as the rate-limit error, any
\* other status with that status and the upstream message when there is one,
\* and no response at all as the transport error.
C15_UpstreamFailureMapped ==
  (news.op = "fetchNews" /\ news.res.sent = 1 /\ news.up.kind = "error")
    => /\ (news.up.response /\ news.up.status = 401)
            => Outcome(news.res) = <<401, "Invalid or missing xAI API key">>
       /\ (news.up.response /\ news.up.status = 403)
            => Outcome(news.res) = <<403, "Access forbidden to xAI API">>
       /\ (news.up.response /\ news.up.status = 429)
            => Outcome(news.res) = <<429, "Rate limit exceeded for xAI API">>
       /\ (news.up.response /\ news.up.status \notin {401, 403, 429, 0})
            => /\ news.res.status = news.up.status
               /\ news.up.message # "" => news.res.error = news.up.message
               /\ news.up.message = ""
                    => news.res.error = "Failed to fetch news from xAI"
       /\ ~news.up.response
            => Outcome(news.res) = <<500, "Failed to fetch news from xAI">>
       /\ ~news.res.hasNews

\* a status outside the three named ones, with a message of the upstream
C15_Witness ==
  /\ news.op = "fetchNews"
  /\ news.up = ErrorResponse(404, "model overloaded")
  /\ Outcome(news.res) = <<404, "model overloaded">>
  /\ news.res.sent = 1

\* the four failures of summarize the caller is to tell apart
SummaryFailures ==
  {ErrorResponse(401, ""), ErrorResponse(429, ""), NoResponse,
   Completion(<< >>)}

SummaryOutcome(up) ==
  Outcome(SummaryPOST(Body(Undefined, JsString(<<"0-1">>), JsString(<<"a">>)),
                      up))

\* C16: summarize fails on an empty reply, and what the caller gets for an
\* auth failure, a rate-limit failure, a transport failure and an empty
\* summary differs from one to the other.
C16_SummaryFailuresDistinct ==
  (news.op = "summarize" /\ news.res.sent = 1 /\ news.up \in SummaryFailures)
    => /\ news.res.status # 200
       /\ \A other \in SummaryFailures \ {news.up} :
            Outcome(news.res) # SummaryOutcome(other)

\* the part of C16 on the empty reply alone
C16_EmptySummaryFails ==
  (news.op = "summarize" /\ news.res.sent = 1
   /\ news.up.kind = "completion" /\ ReplyText(news.up) = << >>)
    => news.res.status = 500

\* the spellings of a phrase that differ in the case of letters only
Casings(phrase) ==
  CASE phrase = "latest football news" ->
         {"latest football news", "Latest Football News"}
    [] phrase = "upcoming important football matches in europe" ->
         {"upcoming important football matches in europe",
          "upcoming important football matches in Europe"}
    [] OTHER -> {phrase}

ContainsIgnoringCase(q, phrase) ==
  \E i \in 1..Len(q) : q[i] \in Casings(phrase)

ContainsAsTyped(q, phrase) == \E i \in 1..Len(q) : q[i] = phrase

\* the news route accepted the query and built a prompt
Prompted == news.op = "fetchNews" /\ news.res.sent = 1

\* C17 as stated: a query that contains "latest football news" gets the
\* latest-news prompt, otherwise one that contains "upcoming important
\* football matches in europe" gets the upcoming-matches prompt, every other
\* query gets the per-entity prompt with the query in it.
C17_PromptByPhraseAsTyped ==
  Prompted
    => LET q == news.body.q.text
       IN news.res.prompt =
            IF ContainsAsTyped(q, "latest football news")
            THEN Prompt("latest", << >>)
            ELSE IF ContainsAsTyped(q,
                      "upcoming important football matches in europe")
            THEN Prompt("upcoming", << >>)
            ELSE Prompt("entity", q)

\* C17: the same with the two phrases looked for without regard to the case
\* of letters: the first phrase wins over the second, every other query gets
\* the per-entity prompt with the query as it was typed.
C17_PromptByPhraseIgnoringCase ==
  Prompted
    => LET q == news.body.q.text
       IN news.res.prompt =
            IF ContainsIgnoringCase(q, "latest football news")
            THEN Prompt("latest", << >>)
            ELSE IF ContainsIgnoringCase(q,
                      "upcoming important football matches in europe")
            THEN Prompt("upcoming", << >>)
            ELSE Prompt("entity", q)

\* the query of the timeline page for the games, with "Europe" in it
C17_Witness ==
  /\ Prompted
  /\ news.body.q = JsString(TimelineGamesQuery)
  /\ news.res.prompt = Prompt("upcoming", << >>)

\* C18: the items the home page has accumulated from its fetchNews calls
\* carry ids that differ from one another.
C18_FeedIdsUnique ==
  \A i, j \in 1..Len(feed) : i # j => feed[i].id # feed[j].id

\* the part of C18 on one reply alone
C18_IdsUniqueWithinReply ==
  (news.op = "fetchNews" /\ news.res.hasNews)
    => \A i, j \in 1..Len(news.res.news) :
         i # j => news.res.news[i].id # news.res.news[j].id

\* ------------------------------------- claims on categories and on order
\* C19: at the call sites of the server actions, a term added under a
\* category that is none of the four names ends the call in players, and
\* under the text "tournament" in tournaments.
C19_CustomCategoryStored ==
  (last.op = "add" /\ last.site \in ActionSites
   /\ last.term # "" /\ last.category # "")
    => /\ Recognised(last.category) = "none"
            => Includes(file.subs.col["players"], last.term)
       /\ last.category = "tournament"
            => Includes(file.subs.col["tournaments"], last.term)

\* position in the log of the latest insertion of t into collection n
LastInsertion(n, t) ==
  LET K == {k \in 1..Len(log) : log[k] = <<n, t>>}
  IN IF K = {} THEN 0 ELSE CHOOSE k \in K : \A l \in K : l <= k

\* C20: a successful add of a term the collection does not hold puts it at
\* the end of the collection, and every collection lists its terms in the
\* order of their latest insertion.
C20_InsertionOrder ==
  /\ (/\ last.op = "add" /\ last.ok
      /\ Recognised(last.category) # "none"
      /\ ~Includes(last.pre.subs.col[Recognised(last.category)], last.term))
       => file.subs.col[Recognised(last.category)]
            = Append(last.pre.subs.col[Recognised(last.category)], last.term)
  /\ \A n \in Names : \A i, j \in 1..Len(file.subs.col[n]) :
       i < j => /\ 0 < LastInsertion(n, file.subs.col[n][i])
                /\ LastInsertion(n, file.subs.col[n][i])
                     < LastInsertion(n, file.subs.col[n][j])

\* a was added, then b, a was removed and added again: b stands before a
C20_Witness ==
  /\ last.op = "add" /\ last.ok /\ last.term = "a"
  /\ log = <<<<"leagues", "a">>, <<"leagues", "b">>, <<"leagues", "a">>>>
  /\ file.subs.col["leagues"] = <<"b", "a">>

\* ------------------------------------------------------- further claims
\* C21: remove(t, "tournament") succeeds at every call site, the DELETE route
\* included, and leaves no t in the persisted tournaments.
C21_TournamentRemoved ==
  (last.op = "remove" /\ last.term # ""
   /\ Recognised(last.category) = "tournaments")
    => /\ last.ok
       /\ ~Includes(file.subs.col["tournaments"], last.term)

C24_OtherCategoriesUntouched ==
  last.op \in {"add", "remove"}
    => \A n \in Names \ {Recognised(last.category)} :
         file.subs.col[n] = last.pre.subs.col[n]

\* a term was added to leagues while teams and players held terms
C24_Witness ==
  /\ last.op = "add" /\ last.ok /\ last.wrote
  /\ Recognised(last.category) = "leagues"
  /\ Len(last.pre.subs.col["teams"]) = 1
  /\ Len(last.pre.subs.col["players"]) = 1
  /\ Len(file.subs.col["leagues"]) = 1

\* C25: every term persisted before add(t, c) is persisted after it, also
\* when the read inside add fails.
C25_AddKeepsTerms ==
  last.op = "add"
    => \A n \in Names : \A i \in 1..Len(last.pre.subs.col[n]) :
         Includes(file.subs.col[n], last.pre.subs.col[n][i])

\* a request of the home page settles in this step without a list of news
FetchFails ==
  /\ Len(home'.flying) < Len(home.flying)
  /\ ~(Resolved(news'.res) /\ news'.res.hasNews)

\* C23: when a fetchNews request of the home page fails, by an error status
\* or with no answer, the banner is set to a non-empty text and the feed is
\* the feed from before with one placeholder item appended.
C23_FailureAppendsPlaceholder ==
  [][FetchFails
       => /\ home'.error # ""
          /\ feed' = Append(feed,
               NewsItem(<<clock>>, <<"Couldn't fetch news.">>,
                        IsoDate(clock), PlaceholderUrl))]_vars

\* a placeholder stands behind an item that was received earlier
C23_Witness ==
  /\ Len(feed) = 2
  /\ feed[1].title = <<"a">>
  /\ feed[2].title = <<"Couldn't fetch news.">>
  /\ feed[2].url = PlaceholderUrl
  /\ home.error = "Rate limit exceeded for xAI API"

\* C28: after clearNewsFeed the feed is empty until the user starts a new
\* fetchNews.
C28_ClearedFeedStaysEmpty == home.cleared => feed = << >>

\* C26: when the home page has loaded and no server action is pending, each
\* list it shows is the persisted collection of that category.
C26_HomeAgreesWithStore ==
  (home.loaded /\ home.pending = << >>)
    => \A n \in Names : home.lists[n] = file.subs.col[n]

\* C27: no list of the home page shows the same term twice.
C27_ShownOnce ==
  \A n \in Names : \A i, j \in 1..Len(home.lists[n]) :
    i # j => home.lists[n][i] # home.lists[n][j]

\* C29: when the latest-news request of the timeline succeeded and the
\* upcoming-matches request failed, the news received stay in the list and
\* the games list alone shows the placeholder; and when the latest-news
\* request failed the upcoming-matches request has been sent all the same.
C29_TimelineRequestsIndependent ==
  /\ (timeline.pc = "done" /\ timeline.issued = 2 /\ ~Resolved(news.res))
       => /\ Len(timeline.timelineNews) > 0
          /\ \A i \in 1..Len(timeline.timelineNews) :
               timeline.timelineNews[i].title
                 # <<"Couldn't fetch timeline news.">>
          /\ Len(timeline.upcomingGames) = 1
          /\ timeline.upcomingGames[1].title
               = <<"Couldn't fetch upcoming games.">>
  /\ timeline.pc = "done" => timeline.issued = 2

\* C30: the detail page leaves the loading state whatever the outcome of the
\* summary request and when id or title is missing, and once it has, either
\* a non-empty summary is shown and no error, or an error is set.
C30_LeavesLoading ==
  /\ detail.loading ~> ~detail.loading
  /\ [](~detail.loading
          => ((detail.summary # << >> /\ detail.error = "")
                # (detail.error # "")))

\* no answer arrived and the page shows the error
C30_Witness ==
  /\ detail.pc = "done"
  /\ ~detail.loading
  /\ news.op = "summarize"
  /\ news.res = NoHttpResponse
  /\ detail.error = "Failed to fetch the summary."
  /\ detail.summary = << >>

====
